---- MODULE Spec2Model ----
(***************************************************************************)
(* trait_mux: a procedural macro that, from `Name{Trait1, path::Trait2}`,  *)
(* generates an enum with one variant per subset of the listed traits, an  *)
(* accessor per trait, and an autoref-specialization scaffold that picks   *)
(* the variant for a value.                                                *)
(*                                                                         *)
(* Pipeline modelled here: parse -> analyze (extract_traits,               *)
(* generate_enum_variants) -> lower -> codegen, followed by the two uses   *)
(* of the generated code:                                                  *)
(* the into_<name>! macro on a value and a try_as_<trait> call.            *)
(*                                                                         *)
(* Strings are sequences of byte values (Rust String ordering is bytewise  *)
(* lexicographic).  A syn::Path is a sequence of segments, each a string.  *)
(* A `&Path` held by a Trait is the address of the element of ast.paths:   *)
(* its index in ast.paths.                                                 *)
(***************************************************************************)
EXTENDS Integers, Sequences, FiniteSets, TLC

VARIABLES
    pc,         \* position in the pipeline
    input,      \* the macro's TokenStream [given, stream]; not given when an Ast is handed to analyze
    ast,        \* parse::Ast           [name, paths]
    diag,       \* number of diagnostics emitted by emit_error!
    model,      \* analyze::Model       [enum_ident, enum_variants, wrap_ident, traits]
    ir,         \* lower::Ir
    tokens,     \* the generated items (codegen's TokenStream, by item)
    implemented,\* the set of traits (resolved paths) the wrapped value's type implements
    selected,   \* result of method resolution in the into_<name>! macro
    answer,     \* result of the last try_as_<trait> call
    keys,       \* two variants and their sort keys, for the sort key on its own
    shift       \* the loop bound `1 << n`, for the loop bound on its own

vars == <<pc, input, ast, diag, model, ir, tokens, implemented, selected, answer, keys, shift>>

(***************************************************************************)
(* Bounds of the model.                                                    *)
(***************************************************************************)
MaxTraits == 3

(***************************************************************************)
(* Strings.                                                                *)
(***************************************************************************)
Str_None == <<78, 111, 110, 101>>          \* "None"
Str_Wrap == <<87, 114, 97, 112>>           \* "Wrap"
Str_Tag == <<84, 97, 103>>                 \* "Tag"
Str_Match == <<77, 97, 116, 99, 104>>      \* "Match"
Str_Space == <<32>>                        \* " "

Min(a, b) == IF a <= b THEN a ELSE b

\* a < b for Rust Strings: bytewise lexicographic order.
StrLess(a, b) ==
    \E k \in 1..(Min(Len(a), Len(b)) + 1) :
        /\ \A m \in 1..(k - 1) : a[m] = b[m]
        /\ \/ k > Len(a) /\ k <= Len(b)
           \/ k <= Len(a) /\ k <= Len(b) /\ a[k] < b[k]

StrLeq(a, b) == a = b \/ StrLess(a, b)

\* Concatenation of a sequence of strings (Iterator<String>::collect::<String>()).
RECURSIVE collect_String(_)
collect_String(ss) ==
    IF ss = <<>> THEN <<>> ELSE Head(ss) \o collect_String(Tail(ss))

\* usize::to_string: decimal digits, no sign, no padding.
RECURSIVE to_string(_)
to_string(n) ==
    IF n < 10 THEN <<48 + n>> ELSE to_string(n \div 10) \o <<48 + (n % 10)>>

\* Mutant of format_zero_padded: no padding.
format_zero_padded_NoPad(v, width) == to_string(v)

\* format!("{:0width$}", v): decimal digits left-padded with '0' to `width`;
\* never truncated when longer.
format_zero_padded(v, width) ==
    LET digits == to_string(v)
    IN  IF Len(digits) >= width THEN digits
        ELSE [k \in 1..(width - Len(digits)) |-> 48] \o digits

\* slice::sort_by_key: a stable sort of `s` by the parallel sequence of keys
\* `k` (k[i] is the key of s[i]) compared as Strings.  Element i lands at
\* the position given by the number of elements with a smaller key plus the
\* number of earlier elements with an equal key.
SortedPosition(k, i) ==
    Cardinality({j \in DOMAIN k : StrLess(k[j], k[i]) \/ (k[j] = k[i] /\ j < i)}) + 1

sort_by_key(s, k) ==
    [p \in DOMAIN s |-> s[CHOOSE i \in DOMAIN s : SortedPosition(k, i) = p]]

(***************************************************************************)
(* Inputs: the Ast handed to analyze.                                      *)
(***************************************************************************)
PathA == << <<65>> >>                       \* A
PathB == << <<66>> >>                       \* B
PathC == << <<67>> >>                       \* C
PathAB == << <<65, 66>> >>                  \* AB
PathMA == << <<109>>, <<65>> >>             \* m::A
PathNone == << Str_None >>                  \* None
PathEmpty == << >>                          \* a Path with no segments

PathUniverse == {PathA, PathB, PathC, PathAB, PathMA, PathNone, PathEmpty}

NameUniverse == { <<84>>, <<84, 121>> }     \* T, Ty

RECURSIVE SeqsUpTo(_, _)
SeqsUpTo(S, n) ==
    IF n = 0 THEN { <<>> }
    ELSE LET shorter == SeqsUpTo(S, n - 1)
         IN  shorter \cup {Append(s, x) : s \in {t \in shorter : Len(t) = n - 1}, x \in S}

AstUniverse == [name : NameUniverse, paths : SeqsUpTo(PathUniverse, MaxTraits)]

\* The segments of the Path at address `p` of the current Ast.
Segments(p) == ast.paths[p]

(***************************************************************************)
(* parse.rs                                                                *)
(*                                                                         *)
(* A TokenStream is a sequence of token trees.  A token tree is an Ident   *)
(* (with its text), the punctuation `::` or `,`, a Literal, or a Group in  *)
(* braces holding a TokenStream.  A parsed Path is kept as its segments;   *)
(* a leading `::` is accepted by Path::parse and is not a segment.         *)
(***************************************************************************)
MaxTokens == 5

Token_Ident(text) == [kind |-> "Ident", text |-> text, stream |-> <<>>]
Token_PathSep == [kind |-> "PathSep", text |-> <<>>, stream |-> <<>>]
Token_Comma == [kind |-> "Comma", text |-> <<>>, stream |-> <<>>]
Token_Literal == [kind |-> "Literal", text |-> <<>>, stream |-> <<>>]
Group_Brace(stream) == [kind |-> "Brace", text |-> <<>>, stream |-> stream]

\* The token trees written between the braces or in place of them.
FlatTokens == {Token_Ident(<<65>>), Token_Ident(<<109>>), Token_PathSep, Token_Comma,
               Token_Literal}

FlatStreams == SeqsUpTo(FlatTokens, MaxTokens)

\* The macro inputs: streams without a group (the empty stream and a list of
\* paths without name and braces among them), and a group in braces with or
\* without a name before it and with or without a token after it.
InputUniverse ==
    FlatStreams
    \cup {before \o <<Group_Brace(inner)>> \o after :
              before \in {<<>>} \cup {<<Token_Ident(name)>> : name \in NameUniverse},
              inner \in FlatStreams,
              after \in {<<>>, <<Token_Comma>>}}

NoInput == [given |-> FALSE, stream |-> <<>>]

NoAst == [name |-> <<>>, paths |-> <<>>]

\* The result of a parser that failed (syn::Result::Err).
Err == [ok |-> FALSE, value |-> <<>>, rest |-> <<>>]

\* The result of a parser that returned `value` and left `rest` unread.
Ok(value, rest) == [ok |-> TRUE, value |-> value, rest |-> rest]

\* ParseStream::peek(T) / parse::<T>() for a single token of kind `kind`.
peek(s, kind) == s # <<>> /\ Head(s).kind = kind

\* Path::parse after the first segment: while the next token is `::`, read
\* it and the segment that must follow.
RECURSIVE Path_parse_rest(_, _)
Path_parse_rest(s, segments) ==
    IF peek(s, "PathSep")
    THEN IF peek(Tail(s), "Ident")
         THEN Path_parse_rest(Tail(Tail(s)), Append(segments, s[2].text))
         ELSE Err
    ELSE Ok(segments, s)

\* Mutant of Path_parse: only the last segment is kept.
Path_parse_LastSegment(s) ==
    LET t == IF peek(s, "PathSep") THEN Tail(s) ELSE s
    IN  IF peek(t, "Ident")
        THEN LET r == Path_parse_rest(Tail(t), <<Head(t).text>>)
             IN  IF r.ok THEN Ok(<<r.value[Len(r.value)]>>, r.rest) ELSE Err
        ELSE Err

\* Path::parse: an optional leading `::`, a segment, then `::` segment
\* repeated.
Path_parse(s) ==
    LET t == IF peek(s, "PathSep") THEN Tail(s) ELSE s
    IN  IF peek(t, "Ident")
        THEN Path_parse_rest(Tail(t), <<Head(t).text>>)
        ELSE Err

\* Punctuated::<Path, Token![,]>::parse_terminated: until the stream is
\* empty, a Path, then either the end of the stream or a comma.
RECURSIVE parse_terminated(_, _)
parse_terminated(s, paths) ==
    IF s = <<>> THEN Ok(paths, <<>>)
    ELSE LET value == Path_parse(s)
         IN  IF ~value.ok THEN Err
             ELSE IF value.rest = <<>> THEN Ok(Append(paths, value.value), <<>>)
             ELSE IF peek(value.rest, "Comma")
                  THEN parse_terminated(Tail(value.rest), Append(paths, value.value))
                  ELSE Err

\* Mutant of Ast_parse: a list of paths without name and braces is read as
\* the paths of an Ast named T.
Ast_parse_BareList(s) ==
    IF ~peek(s, "Ident") THEN Err
    ELSE IF ~peek(Tail(s), "Brace")
         THEN LET paths == parse_terminated(s, <<>>)
              IN  IF ~paths.ok THEN Err
                  ELSE Ok([name |-> <<84>>, paths |-> paths.value], <<>>)
         ELSE LET paths == parse_terminated(s[2].stream, <<>>)
              IN  IF ~paths.ok THEN Err
                  ELSE Ok([name |-> Head(s).text, paths |-> paths.value], Tail(Tail(s)))

\* <Ast as Parse>::parse: an Ident, a group in braces, and inside the group
\* the paths.
Ast_parse(s) ==
    IF ~peek(s, "Ident") THEN Err
    ELSE IF ~peek(Tail(s), "Brace") THEN Err
    ELSE LET paths == parse_terminated(s[2].stream, <<>>)
         IN  IF ~paths.ok THEN Err
             ELSE Ok([name |-> Head(s).text, paths |-> paths.value], Tail(Tail(s)))

\* Mutant of parse2: tokens left after the Ast are ignored.
parse2_IgnoreRest(ts) ==
    LET node == Ast_parse(ts)
    IN  IF node.ok THEN Ok(node.value, <<>>) ELSE Err

\* syn::parse2::<Ast>: Ast::parse, and an error when tokens are left.
parse2(ts) ==
    LET node == Ast_parse(ts)
    IN  IF node.ok /\ node.rest = <<>> THEN node ELSE Err

(***************************************************************************)
(* analyze.rs                                                              *)
(***************************************************************************)
\* The paths of `a` that have no segment: each makes extract_traits emit an
\* error and then unwrap() the missing last segment.
EmptyPaths(a) == {p \in DOMAIN a.paths : a.paths[p] = <<>>}

\* Mutant of extract_traits: the traits are left in the order of the paths.
extract_traits_Unsorted(a) ==
    [p \in DOMAIN a.paths |-> [ident |-> a.paths[p][Len(a.paths[p])], path |-> p]]

\* extract_traits: one Trait per path, ident = last segment, path = the
\* address of the path; then a stable sort by ident.to_string().
extract_traits(a) ==
    LET traits == [p \in DOMAIN a.paths |->
                      [ident |-> a.paths[p][Len(a.paths[p])], path |-> p]]
    IN  sort_by_key(traits, [i \in DOMAIN traits |-> traits[i].ident])

\* The integer literals of `0..(1 << n)` and `i & (1 << j)` are constrained
\* by nothing but each other: their type is i32.
I32Bits == 32

\* i32::MIN.
MinI32 == -(2 ^ (I32Bits - 2)) - 2 ^ (I32Bits - 2)

\* 1 << n in i32, as the shift instruction computes it: the shift amount is
\* taken modulo 32 and bit 31 is the sign.  (With overflow checks, n >= 32
\* panics instead: see LoopBoundPanic.)
Shl1(n) ==
    LET amount == n % I32Bits
    IN  IF amount < I32Bits - 1 THEN 2 ^ amount ELSE MinI32

\* The number of iterations of `for i in 0..bound`.
RangeLen(bound) == IF bound > 0 THEN bound ELSE 0

\* Mutant of BitSet: the mask is 1 << (j + 1).
BitSet_ShiftedMask(i, j) == (i \div Shl1(j + 1)) % 2 = 1

\* (i & (1 << j)) != 0
BitSet(i, j) == (i \div Shl1(j)) % 2 = 1

\* The inner loop of generate_enum_variants: the traits whose bit is set in
\* i, in the order of `traits` (enumerate() counts j from 0).
permutation(traits, i) ==
    LET picked == SelectSeq([j \in 1..Len(traits) |-> j], LAMBDA j : BitSet(i, j - 1))
    IN  [p \in DOMAIN picked |-> traits[picked[p]]]

\* Mutant of permutations: the loop starts at i = 1.
permutations_FromOne(traits) ==
    [q \in 1..(Shl1(Len(traits)) - 1) |-> permutation(traits, q)]

\* The outer loop: i = 0 .. (1 << n) - 1, in this order.
permutations(traits) ==
    [q \in 1..Shl1(Len(traits)) |-> permutation(traits, q - 1)]

\* Mutant of variant_name: the owner's name is not prefixed.
variant_name_NoPrefix(name, variant) ==
    IF variant = <<>> THEN Str_None
    ELSE collect_String([t \in DOMAIN variant |-> variant[t].ident])

\* The name of one variant.
variant_name(name, variant) ==
    name \o (IF variant = <<>> THEN Str_None
             ELSE collect_String([t \in DOMAIN variant |-> variant[t].ident]))

\* Mutant of variant_sort_key: the key starts with the number of members
\* instead of n minus that number.
variant_sort_key_Ascending(n, e) ==
    format_zero_padded(Len(e.implemented_traits), Len(to_string(n)))
        \o Str_Space \o e.ident

\* The sort key of one variant.
variant_sort_key(n, e) ==
    format_zero_padded(n - Len(e.implemented_traits), Len(to_string(n)))
        \o Str_Space \o e.ident

generate_enum_variants(a, traits) ==
    LET perms == permutations(traits)
        variants == [q \in DOMAIN perms |->
                        [ident |-> variant_name(a.name, perms[q]),
                         implemented_traits |-> perms[q]]]
    IN  sort_by_key(variants,
                    [q \in DOMAIN variants |-> variant_sort_key(Len(traits), variants[q])])

analyze(a) ==
    LET traits == extract_traits(a)
    IN  [enum_ident |-> a.name,
         enum_variants |-> generate_enum_variants(a, traits),
         wrap_ident |-> Str_Wrap \o a.name,
         traits |-> traits]

\* crates/trait_mux_macros, the earlier generate_enum_variants: the key is
\* format!("{} {}", e.implemented_traits.len(), e.ident), without padding.
crates_variant_sort_key(e) ==
    to_string(Len(e.implemented_traits)) \o Str_Space \o e.ident

\* Vec::reverse.
reverse(s) == [p \in DOMAIN s |-> s[Len(s) + 1 - p]]

\* crates/trait_mux_macros, generate_enum_variants: the same variants, sorted
\* by the key above and then reversed.
crates_generate_enum_variants(a, traits) ==
    LET perms == permutations(traits)
        variants == [q \in DOMAIN perms |->
                        [ident |-> variant_name(a.name, perms[q]),
                         implemented_traits |-> perms[q]]]
    IN  reverse(sort_by_key(variants,
                            [q \in DOMAIN variants |-> crates_variant_sort_key(variants[q])]))

crates_analyze(a) ==
    LET traits == extract_traits(a)
    IN  [enum_ident |-> a.name,
         enum_variants |-> crates_generate_enum_variants(a, traits),
         wrap_ident |-> Str_Wrap \o a.name,
         traits |-> traits]

\* The Models a caller of lower can build by hand from the traits and the
\* variants of an Ast: any of the traits and any of the variants, in their
\* order (as the Model of lower's tests, which lists 4 of the 8 variants of
\* its 3 traits).
MaxModelTraits == 2

\* The elements of `s` at the indices `I`, in the order of `s`.
Pick(s, I) ==
    LET kept == SelectSeq([k \in DOMAIN s |-> k], LAMBDA k : k \in I)
    IN  [p \in DOMAIN kept |-> s[kept[p]]]

ModelAstUniverse == [name : {<<84>>}, paths : SeqsUpTo({PathA, PathB}, MaxModelTraits)]

BuiltModels(a) ==
    LET full == analyze(a)
    IN  {[enum_ident |-> full.enum_ident,
          enum_variants |-> Pick(full.enum_variants, V),
          wrap_ident |-> full.wrap_ident,
          traits |-> Pick(full.traits, T)] :
            V \in SUBSET DOMAIN full.enum_variants, T \in SUBSET DOMAIN full.traits}

NoModel == [enum_ident |-> <<>>, enum_variants |-> <<>>, wrap_ident |-> <<>>, traits |-> <<>>]

\* Inputs of the sort key on its own: a number of traits n and two variants
\* with at most n members each.
MaxSortTraits == 11

VariantOf(name, len) ==
    [ident |-> name, implemented_traits |-> [k \in 1..len |-> [ident |-> <<65>>, path |-> k]]]

SortNames == { <<84, 65>>, <<84, 65, 66>>, <<84, 66>> }      \* TA, TAB, TB

NoKeys == [n |-> 0, a |-> VariantOf(<<>>, 0), b |-> VariantOf(<<>>, 0),
           key_a |-> <<>>, key_b |-> <<>>]

\* Inputs of the loop bound on its own: the number of traits and whether the
\* macro crate is built with overflow checks.
MaxShift == 64

NoShift == [n |-> 0, overflow_checks |-> FALSE, status |-> "none", bound |-> 0, iterations |-> 0]

(***************************************************************************)
(* lower.rs                                                                *)
(***************************************************************************)
Constraint_None == [kind |-> "None", path |-> 0, ident |-> <<>>]
Constraint_Path(p) == [kind |-> "Path", path |-> p, ident |-> <<>>]
Constraint_Ident(i) == [kind |-> "Ident", path |-> 0, ident |-> i]

\* Mutant of generate_trait_aggregates: only variants without members are
\* skipped.
generate_trait_aggregates_FromOne(m) ==
    LET multi == SelectSeq(m.enum_variants, LAMBDA v : ~(Len(v.implemented_traits) < 1))
    IN  [g \in DOMAIN multi |->
            [name |-> multi[g].ident, traits |-> multi[g].implemented_traits]]

\* Mutant of generate_trait_aggregates: the traits of an aggregate are
\* listed last to first.
generate_trait_aggregates_ReversedTraits(m) ==
    LET multi == SelectSeq(m.enum_variants, LAMBDA v : ~(Len(v.implemented_traits) <= 1))
    IN  [g \in DOMAIN multi |->
            [name |-> multi[g].ident,
             traits |-> [k \in DOMAIN multi[g].implemented_traits |->
                            multi[g].implemented_traits[
                                Len(multi[g].implemented_traits) + 1 - k]]]]

generate_trait_aggregates(m) ==
    LET multi == SelectSeq(m.enum_variants, LAMBDA v : ~(Len(v.implemented_traits) <= 1))
    IN  [g \in DOMAIN multi |->
            [name |-> multi[g].ident, traits |-> multi[g].implemented_traits]]

\* Mutant of enum_variant_to_constraint: a single trait is constrained by
\* an aggregate too.
enum_variant_to_constraint_NoPath(v) ==
    CASE Len(v.implemented_traits) = 0 -> Constraint_None
      [] OTHER -> Constraint_Ident(v.ident)

\* Mutant of enum_variant_to_constraint: a single trait gives no
\* constraint.
enum_variant_to_constraint_Unbounded(v) ==
    CASE Len(v.implemented_traits) <= 1 -> Constraint_None
      [] OTHER -> Constraint_Ident(v.ident)

enum_variant_to_constraint(v) ==
    CASE Len(v.implemented_traits) = 0 -> Constraint_None
      [] Len(v.implemented_traits) = 1 -> Constraint_Path(v.implemented_traits[1].path)
      [] OTHER -> Constraint_Ident(v.ident)

generate_enum(m) ==
    [name |-> m.enum_ident,
     variants |-> [q \in DOMAIN m.enum_variants |->
                      [ident |-> m.enum_variants[q].ident,
                       constraint |-> enum_variant_to_constraint(m.enum_variants[q])]]]

\* Mutant of implements_trait: `all` instead of `any`.
implements_trait_All(v, current_trait) ==
    \A k \in DOMAIN v.implemented_traits :
        v.implemented_traits[k].path = current_trait.path

\* Mutant of implements_trait: the idents are compared, not the paths.
implements_trait_ByIdent(v, current_trait) ==
    \E k \in DOMAIN v.implemented_traits :
        v.implemented_traits[k].ident = current_trait.ident

\* The filter of generate_enum_impl: does variant v implement current_trait?
\* core::ptr::eq on the two &Path: the same element of ast.paths.
implements_trait(v, current_trait) ==
    \E k \in DOMAIN v.implemented_traits :
        v.implemented_traits[k].path = current_trait.path

\* Mutant of generate_enum_impl: the matching variants are listed last to
\* first.
generate_enum_impl_Reversed(m) ==
    [functions |-> [t \in DOMAIN m.traits |->
        LET matching == SelectSeq(m.enum_variants,
                                  LAMBDA v : implements_trait(v, m.traits[t]))
        IN  [result_path |-> m.traits[t].path,
             matching_variants |-> [q \in DOMAIN matching |->
                                       matching[Len(matching) + 1 - q].ident]]]]

\* One Function per trait.  (Function.name, try_as_<snake case of the ident>,
\* is built by the convert_case crate and is not represented.)
generate_enum_impl(m) ==
    [functions |-> [t \in DOMAIN m.traits |->
        LET matching == SelectSeq(m.enum_variants,
                                  LAMBDA v : implements_trait(v, m.traits[t]))
        IN  [result_path |-> m.traits[t].path,
             matching_variants |-> [q \in DOMAIN matching |-> matching[q].ident]]]]

\* Mutant of generate_autoref_specializers: deref_count is the depth used by
\* the sort key, the number of traits minus the number of members.
generate_autoref_specializers_Inverted(m) ==
    [q \in DOMAIN m.enum_variants |->
        LET v == m.enum_variants[q]
        IN  [tag |-> v.ident \o Str_Tag,
             match |-> v.ident \o Str_Match,
             deref_count |-> Len(m.traits) - Len(v.implemented_traits),
             variant |-> v.ident,
             constraint |-> enum_variant_to_constraint(v)]]

generate_autoref_specializers(m) ==
    [q \in DOMAIN m.enum_variants |->
        LET v == m.enum_variants[q]
        IN  [tag |-> v.ident \o Str_Tag,
             match |-> v.ident \o Str_Match,
             deref_count |-> Len(v.implemented_traits),
             variant |-> v.ident,
             constraint |-> enum_variant_to_constraint(v)]]

\* Mutant of lower: wrap_derefs is the number of traits.
lower_NoExtraRef(m) ==
    [trait_aggregates |-> generate_trait_aggregates(m),
     enum |-> generate_enum(m),
     enum_impl |-> generate_enum_impl(m),
     autoref_specializers |-> generate_autoref_specializers(m),
     wrap_ident |-> m.wrap_ident,
     wrap_derefs |-> Len(m.traits)]

\* (Ir.into and Ir.into_tag, built by convert_case, are not represented.)
lower(m) ==
    [trait_aggregates |-> generate_trait_aggregates(m),
     enum |-> generate_enum(m),
     enum_impl |-> generate_enum_impl(m),
     autoref_specializers |-> generate_autoref_specializers(m),
     wrap_ident |-> m.wrap_ident,
     wrap_derefs |-> Len(m.traits) + 1]

NoIr == [trait_aggregates |-> <<>>, enum |-> [name |-> <<>>, variants |-> <<>>],
         enum_impl |-> [functions |-> <<>>], autoref_specializers |-> <<>>,
         wrap_ident |-> <<>>, wrap_derefs |-> 0]

(***************************************************************************)
(* codegen.rs: the generated items.  A Path is emitted as its tokens (its  *)
(* segments); an Ident as its string.                                      *)
(***************************************************************************)
\* The `T #t_constraint` bound / the `(&'t dyn ...)` payload written for a
\* Constraint.
emit_constraint(c) ==
    CASE c.kind = "None" -> [kind |-> "None", text |-> <<>>]
      [] c.kind = "Path" -> [kind |-> "Path", text |-> Segments(c.path)]
      [] c.kind = "Ident" -> [kind |-> "Ident", text |-> c.ident]

\* pub trait #name: #(#traits)+* {}  impl<T: #(#traits)+*> #name for T {}
codegen_trait_aggregates(i) ==
    [g \in DOMAIN i.trait_aggregates |->
        [name |-> i.trait_aggregates[g].name,
         supertraits |-> [k \in DOMAIN i.trait_aggregates[g].traits |->
                             Segments(i.trait_aggregates[g].traits[k].path)]]]

\* pub enum #enum_name<'t> { #ident #constraint, ... }
codegen_enum(i) ==
    [name |-> i.enum.name,
     fields |-> [q \in DOMAIN i.enum.variants |->
                    [ident |-> i.enum.variants[q].ident,
                     payload |-> emit_constraint(i.enum.variants[q].constraint)]]]

\* pub fn #name(&self) -> Option<&dyn #result_path>
\*   { match self { #(Enum::#matching_variants (v) => Some(v),)* _ => None } }
codegen_enum_impl(i) ==
    [f \in DOMAIN i.enum_impl.functions |->
        [result |-> Segments(i.enum_impl.functions[f].result_path),
         arms |-> i.enum_impl.functions[f].matching_variants]]

\* Mutant of codegen_autoref_specializers: the blocks are emitted in the
\* reverse order.
codegen_autoref_specializers_Reversed(i) ==
    [q \in DOMAIN i.autoref_specializers |->
        LET s == i.autoref_specializers[Len(i.autoref_specializers) + 1 - q]
        IN  [tag |-> s.tag,
             match |-> s.match,
             refs |-> s.deref_count,
             variant |-> s.variant,
             bound |-> emit_constraint(s.constraint),
             param |-> s.constraint.kind # "None"]]

\* struct #tag; impl #tag { fn into<T #t_constraint>(self, v) -> Enum::#variant #param }
\* trait #match<T> { fn into_tag(&self) -> #tag }
\* impl<'t, T #t_constraint> #match<T> for #refs Wrap<'t, T>
codegen_autoref_specializers(i) ==
    [q \in DOMAIN i.autoref_specializers |->
        LET s == i.autoref_specializers[q]
        IN  [tag |-> s.tag,
             match |-> s.match,
             refs |-> s.deref_count,
             variant |-> s.variant,
             bound |-> emit_constraint(s.constraint),
             param |-> s.constraint.kind # "None"]]

codegen(i) ==
    [wrap |-> i.wrap_ident,
     trait_aggregates |-> codegen_trait_aggregates(i),
     enum |-> codegen_enum(i),
     fns |-> codegen_enum_impl(i),
     specializers |-> codegen_autoref_specializers(i),
     macro_refs |-> i.wrap_derefs]

NoTokens == [wrap |-> <<>>, trait_aggregates |-> <<>>,
             enum |-> [name |-> <<>>, fields |-> <<>>], fns |-> <<>>,
             specializers |-> <<>>, macro_refs |-> 0]

(***************************************************************************)
(* The generated code in use.                                              *)
(***************************************************************************)
\* rustc accepts the generated items only if no item is defined twice.  The
\* enum's fields, the aggregate traits, the Tag structs and the Match traits
\* are all named after the variant idents.
Compiles(tk) ==
    \A x, y \in DOMAIN tk.enum.fields :
        tk.enum.fields[x].ident = tk.enum.fields[y].ident => x = y

\* Does a type implementing the traits `impl` meet a generated bound?
\* An aggregate `#name` is implemented, by its blanket impl, for every type
\* that implements all its supertraits.
Satisfies(tk, bound, impl) ==
    CASE bound.kind = "None" -> TRUE
      [] bound.kind = "Path" -> bound.text \in impl
      [] bound.kind = "Ident" ->
            \E g \in DOMAIN tk.trait_aggregates :
                /\ tk.trait_aggregates[g].name = bound.text
                /\ \A k \in DOMAIN tk.trait_aggregates[g].supertraits :
                       tk.trait_aggregates[g].supertraits[k] \in impl

\* Method lookup of `into_tag(&self)` on the macro's receiver
\* `#refs Wrap(&$var)`: for the receiver type with k references, k from
\* macro_refs down to 0, rustc first looks for a method whose `&self` is that
\* type (Self has k - 1 references), then, by autoref, for one whose Self is
\* that type (k references).
ProbeSteps(tk) ==
    [s \in 1..(2 * (tk.macro_refs + 1)) |->
        LET k == tk.macro_refs - ((s - 1) \div 2)
        IN  IF s % 2 = 1 THEN k - 1 ELSE k]

\* The specializers whose impl applies at one step: `#refs` is the Self type
\* looked for and the bound on T holds.
Candidates(tk, level, impl) ==
    {q \in DOMAIN tk.specializers :
        /\ tk.specializers[q].refs = level
        /\ Satisfies(tk, tk.specializers[q].bound, impl)}

Unresolved == [status |-> "none", specializer |-> 0, variant |-> <<>>]

\* The first step with a candidate decides: one candidate is called, several
\* are an ambiguity error.
into_macro(tk, impl) ==
    LET steps == ProbeSteps(tk)
        hits == {s \in DOMAIN steps : Candidates(tk, steps[s], impl) # {}}
    IN  IF hits = {} THEN [status |-> "no_method", specializer |-> 0, variant |-> <<>>]
        ELSE LET first == CHOOSE s \in hits : \A r \in hits : s <= r
                 found == Candidates(tk, steps[first], impl)
             IN  IF Cardinality(found) > 1
                 THEN [status |-> "ambiguous", specializer |-> 0, variant |-> <<>>]
                 ELSE LET q == CHOOSE x \in found : TRUE
                      IN  [status |-> "ok", specializer |-> q,
                           variant |-> tk.specializers[q].variant]

\* try_as_<trait> on an enum value: Some for the listed arms, None otherwise.
try_as(tk, f, variant) ==
    \E x \in DOMAIN tk.fns[f].arms : tk.fns[f].arms[x] = variant

NoAnswer == [fn |-> 0, present |-> FALSE]

(***************************************************************************)
(* The state machine.                                                      *)
(***************************************************************************)
Init ==
    /\ \/ /\ pc = "input"
          /\ input \in [given : {TRUE}, stream : InputUniverse]
          /\ ast = NoAst
          /\ model = NoModel
       \/ /\ pc = "parsed"
          /\ input = NoInput
          /\ ast \in AstUniverse
          /\ model = NoModel
       \/ /\ pc = "model"
          /\ input = NoInput
          /\ ast \in ModelAstUniverse
          /\ model \in BuiltModels(ast)
    /\ keys = NoKeys
    /\ shift = NoShift
    /\ diag = 0
    /\ ir = NoIr
    /\ tokens = NoTokens
    /\ implemented = {}
    /\ selected = Unresolved
    /\ answer = NoAnswer

\* parse on a TokenStream that parse2 accepts.
Parse ==
    /\ pc = "input"
    /\ parse2(input.stream).ok
    /\ ast' = parse2(input.stream).value
    /\ pc' = "parsed"
    /\ UNCHANGED <<keys, shift, input, diag, model, ir, tokens, implemented, selected, answer>>

\* parse on a TokenStream that parse2 rejects: abort! emits the error and
\* ends the expansion.
ParseAbort ==
    /\ pc = "input"
    /\ ~parse2(input.stream).ok
    /\ diag' = diag + 1
    /\ pc' = "aborted"
    /\ UNCHANGED <<keys, shift, input, ast, model, ir, tokens, implemented, selected, answer>>

\* analyze on an Ast all of whose paths have a segment.
Analyze ==
    /\ pc = "parsed"
    /\ EmptyPaths(ast) = {}
    /\ model' = analyze(ast)
    /\ pc' = "analyzed"
    /\ UNCHANGED <<keys, shift, input, ast, diag, ir, tokens, implemented, selected, answer>>

\* analyze of crates/trait_mux_macros on an Ast all of whose paths have a
\* segment.
AnalyzeCrates ==
    /\ pc = "parsed"
    /\ EmptyPaths(ast) = {}
    /\ model' = crates_analyze(ast)
    /\ pc' = "analyzed"
    /\ UNCHANGED <<keys, shift, input, ast, diag, ir, tokens, implemented, selected, answer>>

\* Mutant of AnalyzePanic: the path without segments is reported and skipped,
\* and analyze returns a model of the other paths.
AnalyzePanic_Continue ==
    /\ pc = "parsed"
    /\ EmptyPaths(ast) # {}
    /\ diag' = diag + Cardinality(EmptyPaths(ast))
    /\ model' = analyze([ast EXCEPT !.paths = SelectSeq(ast.paths, LAMBDA x : x # <<>>)])
    /\ pc' = "analyzed"
    /\ UNCHANGED <<keys, shift, input, ast, ir, tokens, implemented, selected, answer>>

\* analyze on an Ast with a path without segments: extract_traits emits the
\* error for the first such path and then panics in unwrap().
AnalyzePanic ==
    /\ pc = "parsed"
    /\ EmptyPaths(ast) # {}
    /\ diag' = diag + 1
    /\ pc' = "panicked"
    /\ UNCHANGED <<keys, shift, input, ast, model, ir, tokens, implemented, selected, answer>>

Lower ==
    /\ pc = "analyzed"
    /\ ir' = lower(model)
    /\ pc' = "lowered"
    /\ UNCHANGED <<keys, shift, input, ast, diag, model, tokens, implemented, selected, answer>>

\* lower on a Model built by its caller.
LowerModel ==
    /\ pc = "model"
    /\ ir' = lower(model)
    /\ pc' = "lowered_model"
    /\ UNCHANGED <<keys, shift, input, ast, diag, model, tokens, implemented, selected, answer>>

Codegen ==
    /\ pc = "lowered"
    /\ tokens' = codegen(ir)
    /\ pc' = "emitted"
    /\ UNCHANGED <<keys, shift, input, ast, diag, model, ir, implemented, selected, answer>>

\* The expansion defines an item twice: rustc rejects it.
Reject ==
    /\ pc = "emitted"
    /\ ~Compiles(tokens)
    /\ pc' = "rejected"
    /\ UNCHANGED <<keys, shift, input, ast, diag, model, ir, tokens, implemented, selected, answer>>

\* The traits the listed paths name.
ListedTraits == {ast.paths[p] : p \in DOMAIN ast.paths}

\* into_<name>!(v) for a value whose type implements `impl`.
Into ==
    /\ pc = "emitted"
    /\ Compiles(tokens)
    /\ \E impl \in SUBSET ListedTraits :
          /\ implemented' = impl
          /\ selected' = into_macro(tokens, impl)
    /\ pc' = "converted"
    /\ UNCHANGED <<keys, shift, input, ast, diag, model, ir, tokens, answer>>

\* One try_as_<trait> call on the value into_<name>! returned.
TryAs ==
    /\ pc = "converted"
    /\ selected.status = "ok"
    /\ \E f \in DOMAIN tokens.fns :
          answer' = [fn |-> f, present |-> try_as(tokens, f, selected.variant)]
    /\ pc' = "queried"
    /\ UNCHANGED <<keys, shift, input, ast, diag, model, ir, tokens, implemented, selected>>

Next ==
    Parse \/ ParseAbort \/ Analyze \/ AnalyzePanic \/ Lower \/ LowerModel \/ Codegen
        \/ Reject \/ Into \/ TryAs

Spec == Init /\ [][Next]_vars

\* The macro of crates/trait_mux_macros: parse, its own analyze, lower and
\* codegen.
NextCrates == Parse \/ ParseAbort \/ AnalyzeCrates \/ AnalyzePanic \/ Lower \/ Codegen

SpecCrates == Init /\ [][NextCrates]_vars

\* The sort key of generate_enum_variants on its own.
InitSortKey ==
    /\ pc = "key_input"
    /\ \E n \in 1..MaxSortTraits :
          keys \in [n : {n},
                    a : {VariantOf(name, len) : name \in SortNames, len \in 0..n},
                    b : {VariantOf(name, len) : name \in SortNames, len \in 0..n},
                    key_a : {<<>>}, key_b : {<<>>}]
    /\ shift = NoShift
    /\ input = NoInput
    /\ ast = NoAst
    /\ model = NoModel
    /\ diag = 0
    /\ ir = NoIr
    /\ tokens = NoTokens
    /\ implemented = {}
    /\ selected = Unresolved
    /\ answer = NoAnswer

\* The closure given to sort_by_key, called on the two variants.
SortKey ==
    /\ pc = "key_input"
    /\ keys' = [keys EXCEPT !.key_a = variant_sort_key(keys.n, keys.a),
                            !.key_b = variant_sort_key(keys.n, keys.b)]
    /\ pc' = "key_done"
    /\ UNCHANGED <<shift, input, ast, diag, model, ir, tokens, implemented, selected, answer>>

NextSortKey == SortKey

SpecSortKey == InitSortKey /\ [][NextSortKey]_vars

\* The loop bound of generate_enum_variants on its own.
InitLoopBound ==
    /\ pc = "shift_input"
    /\ shift \in [n : 0..MaxShift, overflow_checks : BOOLEAN, status : {"none"},
                  bound : {0}, iterations : {0}]
    /\ keys = NoKeys
    /\ input = NoInput
    /\ ast = NoAst
    /\ model = NoModel
    /\ diag = 0
    /\ ir = NoIr
    /\ tokens = NoTokens
    /\ implemented = {}
    /\ selected = Unresolved
    /\ answer = NoAnswer

\* `0..(1 << n)` when the shift does not panic.
LoopBound ==
    /\ pc = "shift_input"
    /\ ~(shift.overflow_checks /\ shift.n >= I32Bits)
    /\ shift' = [shift EXCEPT !.status = "ok",
                              !.bound = Shl1(shift.n),
                              !.iterations = RangeLen(Shl1(shift.n))]
    /\ pc' = "shift_done"
    /\ UNCHANGED <<keys, input, ast, diag, model, ir, tokens, implemented, selected, answer>>

\* `1 << n` with overflow checks and n >= 32: panic, attempt to shift left
\* with overflow.
LoopBoundPanic ==
    /\ pc = "shift_input"
    /\ shift.overflow_checks /\ shift.n >= I32Bits
    /\ shift' = [shift EXCEPT !.status = "panic"]
    /\ pc' = "shift_done"
    /\ UNCHANGED <<keys, input, ast, diag, model, ir, tokens, implemented, selected, answer>>

NextLoopBound == LoopBound \/ LoopBoundPanic

SpecLoopBound == InitLoopBound /\ [][NextLoopBound]_vars

(***************************************************************************)
(* Properties.                                                             *)
(***************************************************************************)
\* analyze has returned a Model.
Analyzed == pc \notin {"model", "lowered_model", "input", "aborted", "parsed", "panicked"}
\* lower has returned an Ir.
Lowered == pc \notin {"model", "lowered_model", "input", "aborted", "parsed", "panicked", "analyzed"}
\* codegen has returned the generated items.
Emitted == pc \notin {"model", "lowered_model", "input", "aborted", "parsed", "panicked", "analyzed", "lowered"}

\* lower has returned the Ir of a Model built by its caller.
LoweredModel == pc = "lowered_model"

\* The members of a variant, as the set of the paths (addresses) they hold.
MemberPaths(v) == {v.implemented_traits[k].path : k \in DOMAIN v.implemented_traits}
\* The paths held by the traits of the model.
TraitPaths == {model.traits[t].path : t \in DOMAIN model.traits}

\* C1: in the list returned by generate_enum_variants, a variant with more
\* members comes before one with fewer, and of two variants with the same
\* number of members A comes before B if and only if A's name is smaller.
C1_OrderedBySizeThenName ==
    Analyzed =>
        \A x, y \in DOMAIN model.enum_variants :
            LET A == model.enum_variants[x]
                B == model.enum_variants[y]
            IN  /\ Len(A.implemented_traits) > Len(B.implemented_traits) => x < y
                /\ Len(A.implemented_traits) = Len(B.implemented_traits) =>
                       (x < y <=> StrLess(A.ident, B.ident))

\* C2: generate_enum_variants returns exactly 2^N variants, their member
\* sets are pairwise distinct, and every subset of the traits is one of them.
C2_PowerSet ==
    Analyzed =>
        /\ Len(model.enum_variants) = 2 ^ Len(model.traits)
        /\ \A x, y \in DOMAIN model.enum_variants :
               MemberPaths(model.enum_variants[x]) = MemberPaths(model.enum_variants[y])
                   => x = y
        /\ \A S \in SUBSET TraitPaths :
               \E x \in DOMAIN model.enum_variants :
                   MemberPaths(model.enum_variants[x]) = S
        /\ \A x \in DOMAIN model.enum_variants :
               Cardinality(MemberPaths(model.enum_variants[x]))
                   = Len(model.enum_variants[x].implemented_traits)

\* C2 witness: analyze has returned the 8 variants of three traits.
C2_Witness ==
    /\ pc = "analyzed"
    /\ Len(model.traits) = MaxTraits
    /\ Len(model.enum_variants) = 2 ^ MaxTraits

\* The listed traits the wrapped value's type implements, as paths.
ImplementedPaths == {p \in TraitPaths : Segments(p) \in implemented}
\* into_<name>! has been applied to a value.
Converted == pc \in {"converted", "queried"}

\* C3: the variant selected for a value implementing S is the one whose
\* members are exactly S, and no combination the value satisfies has more
\* members than the selected one.
C3_MostSpecificSelected ==
    Converted =>
        /\ selected.status = "ok"
        /\ \E q \in DOMAIN model.enum_variants :
               model.enum_variants[q].ident = selected.variant
        /\ \A q \in DOMAIN model.enum_variants :
               model.enum_variants[q].ident = selected.variant =>
                   /\ MemberPaths(model.enum_variants[q]) = ImplementedPaths
                   /\ \A r \in DOMAIN model.enum_variants :
                          MemberPaths(model.enum_variants[r]) \subseteq ImplementedPaths =>
                              Len(model.enum_variants[r].implemented_traits)
                                  <= Len(model.enum_variants[q].implemented_traits)

\* C3 witness: a value implementing two of three listed traits, which meets
\* the bounds of four combinations, has been converted.
C3_Witness ==
    /\ pc = "converted"
    /\ Len(model.traits) = 3
    /\ Cardinality(ImplementedPaths) = 2
    /\ Cardinality({q \in DOMAIN tokens.specializers :
                       Satisfies(tokens, tokens.specializers[q].bound, implemented)}) = 4
    /\ selected.status = "ok"

\* C4: try_as_<C> on the variant selected for S is Some if and only if C is
\* in S; and for every variant, an accessor is Some exactly when the variant
\* is in the matching_variants of its Function.
C4_AccessorPresentIffImplemented ==
    /\ pc = "queried" =>
           (answer.present <=> model.traits[answer.fn].path \in ImplementedPaths)
    /\ Emitted =>
           /\ DOMAIN tokens.fns = DOMAIN ir.enum_impl.functions
           /\ \A f \in DOMAIN tokens.fns :
                  \A x \in DOMAIN tokens.enum.fields :
                      try_as(tokens, f, tokens.enum.fields[x].ident) <=>
                          \E k \in DOMAIN ir.enum_impl.functions[f].matching_variants :
                              ir.enum_impl.functions[f].matching_variants[k]
                                  = tokens.enum.fields[x].ident

\* C4 witness: an accessor was called on a value implementing two of three
\* listed traits, for the trait it does not implement.
C4_Witness ==
    /\ pc = "queried"
    /\ Len(model.traits) = 3
    /\ Cardinality(ImplementedPaths) = 2
    /\ model.traits[answer.fn].path \notin ImplementedPaths
    /\ ~answer.present

\* C5: the Function built for trait C lists exactly the variants whose
\* members hold C's path (the same path, not merely the same ident); with at
\* least one trait the list holds the variant {C} and the variant of all
\* traits, so it is not empty.
C5_AccessorListsVariantsHoldingPath ==
    Lowered =>
        /\ Len(ir.enum_impl.functions) = Len(model.traits)
        /\ \A t \in DOMAIN model.traits :
               LET C == model.traits[t]
                   f == ir.enum_impl.functions[t]
                   holding == SelectSeq(model.enum_variants,
                                        LAMBDA v : C.path \in MemberPaths(v))
               IN  /\ f.result_path = C.path
                   /\ f.matching_variants = [q \in DOMAIN holding |-> holding[q].ident]
                   /\ f.matching_variants # <<>>
                   /\ \E q \in DOMAIN holding : MemberPaths(holding[q]) = {C.path}
                   /\ \E q \in DOMAIN holding : MemberPaths(holding[q]) = TraitPaths

\* C5 witness: lower has run on a model with two traits of the same ident
\* (m::A and A) and a third one.
C5_Witness ==
    /\ pc = "lowered"
    /\ Len(model.traits) = 3
    /\ \E t, u \in DOMAIN model.traits :
           /\ t # u
           /\ model.traits[t].ident = model.traits[u].ident
           /\ Segments(model.traits[t].path) # Segments(model.traits[u].path)

\* The explicit dispatcher: walk the specializers in their emitted order and
\* take the first whose bound the value's type meets.
ordered_check(tk, impl) ==
    LET met == {q \in DOMAIN tk.specializers :
                   Satisfies(tk, tk.specializers[q].bound, impl)}
    IN  IF met = {} THEN 0 ELSE CHOOSE q \in met : \A r \in met : q <= r

\* C6: the autoref resolution selects the same variant as the explicit
\* ordered-check dispatcher.
C6_AutorefEqualsOrderedCheck ==
    Converted =>
        /\ selected.status = "ok"
        /\ ordered_check(tokens, implemented) # 0
        /\ selected.specializer = ordered_check(tokens, implemented)
        /\ selected.variant
               = tokens.specializers[ordered_check(tokens, implemented)].variant

\* C6 witness: a value implementing one of three listed traits was
\* converted; the first specializer it satisfies is not the first of the list.
C6_Witness ==
    /\ pc = "converted"
    /\ Len(model.traits) = 3
    /\ Cardinality(ImplementedPaths) = 1
    /\ ordered_check(tokens, implemented) > 4
    /\ selected.status = "ok"

\* The position of the trait holding path p in model.traits.
TraitIndex(p) == CHOOSE t \in DOMAIN model.traits : model.traits[t].path = p

\* C7: a variant is named by the owner's name followed by the idents of its
\* members in the order of the (alphabetically sorted) trait list, or by
\* "None" when it has no member.
C7_Naming ==
    Analyzed =>
        /\ \A t, u \in DOMAIN model.traits :
               t < u => StrLeq(model.traits[t].ident, model.traits[u].ident)
        /\ \A q \in DOMAIN model.enum_variants :
               LET v == model.enum_variants[q]
                   members == v.implemented_traits
               IN  /\ \A a, b \in DOMAIN members :
                          a < b => TraitIndex(members[a].path) < TraitIndex(members[b].path)
                   /\ v.ident = ast.name \o
                          (IF Len(members) = 0 THEN <<78, 111, 110, 101>>
                           ELSE collect_String([a \in DOMAIN members |-> members[a].ident]))
        /\ ast = [name |-> <<84>>, paths |-> <<PathB, PathC, PathA>>] =>
               model.enum_variants[1].ident = <<84, 65, 66, 67>>
        /\ ast = [name |-> <<84, 121>>, paths |-> <<>>] =>
               model.enum_variants = <<[ident |-> <<84, 121, 78, 111, 110, 101>>,
                                        implemented_traits |-> <<>>]>>

\* C7 witness: analyze has named the variants of Ty{B, C, A}, listed out of
\* alphabetical order.
C7_Witness ==
    /\ pc = "analyzed"
    /\ ast = [name |-> <<84, 121>>, paths |-> <<PathB, PathC, PathA>>]
    /\ model.enum_variants[1].ident = <<84, 121, 65, 66, 67>>
    /\ model.enum_variants[8].ident = <<84, 121, 78, 111, 110, 101>>

\* C8: any two distinct variants returned by generate_enum_variants have
\* different names.
C8_NamesUnique ==
    Analyzed =>
        \A x, y \in DOMAIN model.enum_variants :
            x # y => model.enum_variants[x].ident # model.enum_variants[y].ident

C10_ConstraintKind ==
    Lowered =>
        /\ DOMAIN ir.enum.variants = DOMAIN model.enum_variants
        /\ DOMAIN ir.autoref_specializers = DOMAIN model.enum_variants
        /\ \A q \in DOMAIN model.enum_variants :
               LET v == model.enum_variants[q]
                   c == ir.enum.variants[q].constraint
               IN  /\ ir.autoref_specializers[q].constraint = c
                   /\ ir.enum.variants[q].ident = v.ident
                   /\ ir.autoref_specializers[q].variant = v.ident
                   /\ Len(v.implemented_traits) = 0 => c.kind = "None"
                   /\ Len(v.implemented_traits) = 1 =>
                          c.kind = "Path" /\ MemberPaths(v) = {c.path}
                   /\ Len(v.implemented_traits) >= 2 =>
                          /\ c.kind = "Ident"
                          /\ c.ident = v.ident
                          /\ \E g \in DOMAIN ir.trait_aggregates :
                                 /\ ir.trait_aggregates[g].name = c.ident
                                 /\ ir.trait_aggregates[g].traits = v.implemented_traits

\* C10 witness: lower has assigned the three kinds of constraint.
C10_Witness ==
    /\ pc = "lowered"
    /\ \E q \in DOMAIN ir.enum.variants : ir.enum.variants[q].constraint.kind = "None"
    /\ \E q \in DOMAIN ir.enum.variants : ir.enum.variants[q].constraint.kind = "Path"
    /\ \E q \in DOMAIN ir.enum.variants : ir.enum.variants[q].constraint.kind = "Ident"

\* C11: generate_autoref_specializers yields one specializer per variant, in
\* the order of the variants, each with deref_count equal to the number of
\* members of its variant.
C11_OneSpecializerPerVariant ==
    Lowered =>
        /\ Len(ir.autoref_specializers) = Len(model.enum_variants)
        /\ \A q \in DOMAIN model.enum_variants :
               /\ ir.autoref_specializers[q].variant = model.enum_variants[q].ident
               /\ ir.autoref_specializers[q].deref_count
                      = Cardinality(MemberPaths(model.enum_variants[q]))

\* C11 witness: lower has produced the 8 specializers of three traits, of
\* depths 3 down to 0.
C11_Witness ==
    /\ pc = "lowered"
    /\ Len(ir.autoref_specializers) = 8
    /\ ir.autoref_specializers[1].deref_count = 3
    /\ ir.autoref_specializers[8].deref_count = 0

\* C12: down the list of specializers deref_count never increases; it stays
\* equal only between variants of the same size, which are in the
\* alphabetical order of their names.
C12_DepthNeverIncreases ==
    Lowered =>
        \A q \in DOMAIN ir.autoref_specializers :
            q + 1 \in DOMAIN ir.autoref_specializers =>
                LET here == ir.autoref_specializers[q]
                    next == ir.autoref_specializers[q + 1]
                IN  /\ here.deref_count >= next.deref_count
                    /\ Len(model.enum_variants[q].implemented_traits)
                           # Len(model.enum_variants[q + 1].implemented_traits)
                           => here.deref_count > next.deref_count
                    /\ here.deref_count = next.deref_count =>
                           /\ Len(model.enum_variants[q].implemented_traits)
                                  = Len(model.enum_variants[q + 1].implemented_traits)
                           /\ StrLeq(here.variant, next.variant)

\* C12 witness: the specializers of three traits, with ties of depth 2 and 1.
C12_Witness ==
    /\ pc = "lowered"
    /\ Len(model.traits) = 3
    /\ ir.autoref_specializers[2].deref_count = ir.autoref_specializers[3].deref_count
    /\ ir.autoref_specializers[4].deref_count > ir.autoref_specializers[5].deref_count
    /\ ir.autoref_specializers[2].variant # ir.autoref_specializers[3].variant

\* C13: with no path and owner T there is one variant, TNone, without
\* members; lowering gives no aggregate and no accessor.
C13_EmptyList ==
    ast.paths = <<>> =>
        /\ Analyzed =>
               /\ model.traits = <<>>
               /\ model.enum_variants
                      = <<[ident |-> ast.name \o <<78, 111, 110, 101>>,
                           implemented_traits |-> <<>>]>>
               /\ ast.name = <<84>> =>
                      model.enum_variants[1].ident = <<84, 78, 111, 110, 101>>
        /\ Lowered =>
               /\ ir.trait_aggregates = <<>>
               /\ ir.enum_impl.functions = <<>>
               /\ Len(ir.enum.variants) = 1
        /\ Emitted =>
               /\ tokens.trait_aggregates = <<>>
               /\ tokens.fns = <<>>

\* C13 witness: T{} has gone through analyze, lower and codegen.
C13_Witness ==
    /\ pc = "emitted"
    /\ ast.name = <<84>>
    /\ ast.paths = <<>>
    /\ Len(tokens.enum.fields) = 1

\* C14: extract_traits returns one trait per path of the Ast, none merged,
\* each with the last segment of its path as ident, sorted by ident.
C14_ExtractTraits ==
    Analyzed =>
        /\ Len(model.traits) = Len(ast.paths)
        /\ \A p \in DOMAIN ast.paths :
               Cardinality({t \in DOMAIN model.traits : model.traits[t].path = p}) = 1
        /\ \A t \in DOMAIN model.traits :
               LET segments == Segments(model.traits[t].path)
               IN  model.traits[t].ident = segments[Len(segments)]
        /\ \A t, u \in DOMAIN model.traits :
               t < u => ~StrLess(model.traits[u].ident, model.traits[t].ident)

\* C14 witness: analyze has run on paths given out of order, two of which
\* (A and m::A) end in the same segment.
C14_Witness ==
    /\ pc = "analyzed"
    /\ ast.paths = <<PathB, PathMA, PathA>>
    /\ model.traits[1].path = 2
    /\ model.traits[2].path = 3
    /\ model.traits[3].path = 1

\* C15: when a path has no segment, the error is emitted, generation stops
\* and nothing is produced: no model, no Ir, no generated item.
C15_EmptyPathAborts ==
    EmptyPaths(ast) # {} =>
        /\ pc \in {"parsed", "panicked"}
        /\ pc = "panicked" => diag >= 1
        /\ model = NoModel
        /\ ir = NoIr
        /\ tokens = NoTokens

\* C15 witness: analyze stopped on an Ast with a path without segments
\* between two well-formed paths.
C15_Witness ==
    /\ pc = "panicked"
    /\ diag = 1
    /\ Len(ast.paths) = 3
    /\ EmptyPaths(ast) = {2}

\* C20: the enum fields and the specializer blocks are emitted in the order
\* of model.enum_variants, one each per variant.
C20_OrderPreserved ==
    /\ Lowered =>
           /\ Len(ir.enum.variants) = Len(model.enum_variants)
           /\ Len(ir.autoref_specializers) = Len(model.enum_variants)
           /\ \A q \in DOMAIN model.enum_variants :
                  /\ ir.enum.variants[q].ident = model.enum_variants[q].ident
                  /\ ir.autoref_specializers[q].variant = model.enum_variants[q].ident
    /\ Emitted =>
           /\ Len(tokens.enum.fields) = Len(model.enum_variants)
           /\ Len(tokens.specializers) = Len(model.enum_variants)
           /\ \A q \in DOMAIN model.enum_variants :
                  /\ tokens.enum.fields[q].ident = model.enum_variants[q].ident
                  /\ tokens.specializers[q].variant = model.enum_variants[q].ident
                  /\ tokens.specializers[q].refs
                         = Len(model.enum_variants[q].implemented_traits)

\* C20 witness: the items of three traits have been emitted.
C20_Witness ==
    /\ pc = "emitted"
    /\ Len(model.traits) = 3
    /\ Len(tokens.specializers) = 8
    /\ tokens.specializers[1].variant # tokens.specializers[8].variant

(***************************************************************************)
(* The syntax `SomeName{Display, std::fmt::Debug}` as a predicate on the   *)
(* TokenStream, written from its description and not from the parser.      *)
(***************************************************************************)
\* The runs of tokens between the commas of `s`.
RECURSIVE SplitAtCommas(_)
SplitAtCommas(s) ==
    IF \A k \in DOMAIN s : s[k].kind # "Comma" THEN <<s>>
    ELSE LET c == CHOOSE k \in DOMAIN s :
                      /\ s[k].kind = "Comma"
                      /\ \A j \in 1..(k - 1) : s[j].kind # "Comma"
         IN  <<SubSeq(s, 1, c - 1)>> \o SplitAtCommas(SubSeq(s, c + 1, Len(s)))

\* The elements of a comma-separated list; a comma after the last element
\* is allowed, and the empty stream is the empty list.
ListElements(s) ==
    LET runs == SplitAtCommas(s)
    IN  IF runs[Len(runs)] = <<>> THEN SubSeq(runs, 1, Len(runs) - 1) ELSE runs

\* `e` is a path: identifiers joined by `::`, possibly after a leading `::`.
IsPath(e) ==
    LET body == IF e # <<>> /\ e[1].kind = "PathSep" THEN Tail(e) ELSE e
    IN  /\ Len(body) % 2 = 1
        /\ \A k \in DOMAIN body :
               body[k].kind = (IF k % 2 = 1 THEN "Ident" ELSE "PathSep")

\* The segments of a path, in the order written.
SegmentsOf(e) ==
    LET idents == SelectSeq(e, LAMBDA t : t.kind = "Ident")
    IN  [k \in DOMAIN idents |-> idents[k].text]

\* `ts` is a name followed by a group in braces holding a comma-separated
\* list of paths.
NamedList(ts) ==
    /\ Len(ts) = 2
    /\ ts[1].kind = "Ident"
    /\ ts[2].kind = "Brace"
    /\ \A k \in DOMAIN ListElements(ts[2].stream) : IsPath(ListElements(ts[2].stream)[k])

\* `ts` is a comma-separated list of at least one path, without name and
\* braces.
BareList(ts) ==
    /\ ListElements(ts) # <<>>
    /\ \A k \in DOMAIN ListElements(ts) : IsPath(ListElements(ts)[k])

\* parse has returned or aborted on a TokenStream.
ParseDone == input.given /\ pc # "input"

\* C16: when the input is not a name followed by a group in braces holding a
\* comma-separated list of paths, parse aborts with one error, and no Ast,
\* Model, Ir or generated item is ever produced.
C16_MalformedInputAborts ==
    (ParseDone /\ ~NamedList(input.stream)) =>
        /\ pc = "aborted"
        /\ diag = 1
        /\ ast = NoAst
        /\ model = NoModel
        /\ ir = NoIr
        /\ tokens = NoTokens

\* C16 witness: parse has aborted on T{A, 123}.
C16_Witness ==
    /\ pc = "aborted"
    /\ input.stream = <<Token_Ident(<<84>>),
                        Group_Brace(<<Token_Ident(<<65>>), Token_Comma, Token_Literal>>)>>
    /\ diag = 1

\* C17: for the input Name{p1, ..., pk}, k >= 0, parse returns the Ast with
\* name Name and paths p1 .. pk in this order, each with all its segments.
C17_ParseKeepsNameAndPaths ==
    (ParseDone /\ NamedList(input.stream)) =>
        LET elements == ListElements(input.stream[2].stream)
        IN  /\ pc # "aborted"
            /\ diag = 0
            /\ ast.name = input.stream[1].text
            /\ Len(ast.paths) = Len(elements)
            /\ \A k \in DOMAIN elements : ast.paths[k] = SegmentsOf(elements[k])

\* C17 witness: parse has returned the Ast of Ty{m::A, A}.
C17_Witness ==
    /\ pc = "parsed"
    /\ input.stream = <<Token_Ident(<<84, 121>>),
                        Group_Brace(<<Token_Ident(<<109>>), Token_PathSep, Token_Ident(<<65>>),
                                      Token_Comma, Token_Ident(<<65>>)>>)>>
    /\ ast = [name |-> <<84, 121>>, paths |-> <<PathMA, PathA>>]

\* C18 as stated: parse returns an Ast both for a name followed by a list of
\* paths in braces and for a list of paths without name and braces.
C18_BothFormsAccepted ==
    (ParseDone /\ (NamedList(input.stream) \/ BareList(input.stream))) => pc # "aborted"

\* C18: parse returns an Ast for a name followed by a list of paths in
\* braces, and aborts with one error on a list of paths without name and
\* braces.
C18_OnlyNamedListAccepted ==
    ParseDone =>
        /\ NamedList(input.stream) => pc # "aborted" /\ ast # NoAst
        /\ BareList(input.stream) => pc = "aborted" /\ diag = 1 /\ ast = NoAst

\* C18 witness: parse has aborted on the list `A, m::A` without name and
\* braces.
C18_Witness ==
    /\ pc = "aborted"
    /\ input.stream = <<Token_Ident(<<65>>), Token_Comma,
                        Token_Ident(<<109>>), Token_PathSep, Token_Ident(<<65>>)>>
    /\ BareList(input.stream)

\* C21 as stated: lower never returns a Function with an empty list of
\* matching variants; on a Model with a trait that no variant holds it fails
\* instead.
C21_NoEmptyMatchingList ==
    (Lowered \/ LoweredModel) =>
        \A f \in DOMAIN ir.enum_impl.functions :
            ir.enum_impl.functions[f].matching_variants # <<>>

\* Every member of every variant of the model is a trait of the model.
MembersAreTraits ==
    \A q \in DOMAIN model.enum_variants : MemberPaths(model.enum_variants[q]) \subseteq TraitPaths

\* C22: lower sets wrap_derefs to the number of traits plus one; when the
\* variants hold traits of the model only, this is greater than every
\* deref_count, and the macro's method lookup visits every level from the
\* number of traits down to 0.
C22_WrapDerefsAboveEveryLevel ==
    /\ (Lowered \/ LoweredModel) =>
           /\ ir.wrap_derefs = Len(model.traits) + 1
           /\ MembersAreTraits =>
                  \A q \in DOMAIN ir.autoref_specializers :
                      ir.autoref_specializers[q].deref_count < ir.wrap_derefs
    /\ Emitted =>
           /\ tokens.macro_refs = Len(model.traits) + 1
           /\ \A level \in 0..Len(model.traits) :
                  \E step \in DOMAIN ProbeSteps(tokens) : ProbeSteps(tokens)[step] = level
           /\ \A q \in DOMAIN tokens.specializers :
                  \E step \in DOMAIN ProbeSteps(tokens) :
                      ProbeSteps(tokens)[step] = tokens.specializers[q].refs

\* C22 witness: lower has run on a caller's Model of two traits with the
\* variant holding both, and set wrap_derefs to 3.
C22_Witness ==
    /\ pc = "lowered_model"
    /\ MembersAreTraits
    /\ Len(model.traits) = 2
    /\ ir.wrap_derefs = 3
    /\ \E q \in DOMAIN ir.autoref_specializers : ir.autoref_specializers[q].deref_count = 2

\* C23 as stated: the variants returned by generate_enum_variants of
\* crates/trait_mux_macros are in descending order of the number of members
\* and, for the same number of members, in ascending order of the name.
C23_CratesOrderedBySizeThenName ==
    Analyzed =>
        \A x, y \in DOMAIN model.enum_variants :
            x < y =>
                LET A == model.enum_variants[x]
                    B == model.enum_variants[y]
                IN  /\ Len(A.implemented_traits) >= Len(B.implemented_traits)
                    /\ Len(A.implemented_traits) = Len(B.implemented_traits) =>
                           StrLeq(A.ident, B.ident)

\* C24: the sort key orders two variants as the pair (number of members
\* descending, name ascending), for every number of traits, with one or two
\* digits.
C24_KeyOrderIsPairOrder ==
    pc = "key_done" =>
        LET len_a == Len(keys.a.implemented_traits)
            len_b == Len(keys.b.implemented_traits)
        IN  /\ StrLess(keys.key_a, keys.key_b)
                   <=> (len_a > len_b \/ (len_a = len_b /\ StrLess(keys.a.ident, keys.b.ident)))
            /\ keys.key_a = keys.key_b <=> (len_a = len_b /\ keys.a.ident = keys.b.ident)

\* C24 witness: of 10 traits, a variant with 10 members and a greater name
\* has a smaller key than a variant with 9 members.
C24_Witness ==
    /\ pc = "key_done"
    /\ keys.n = 10
    /\ Len(keys.a.implemented_traits) = 10
    /\ Len(keys.b.implemented_traits) = 9
    /\ StrLess(keys.b.ident, keys.a.ident)
    /\ StrLess(keys.key_a, keys.key_b)
    /\ keys.key_a = <<48, 48, 32>> \o keys.a.ident

\* b = 2^n, without computing 2^n.
RECURSIVE IsTwoToThe(_, _)
IsTwoToThe(b, n) ==
    IF n = 0 THEN b = 1
    ELSE b > 0 /\ b % 2 = 0 /\ IsTwoToThe(b \div 2, n - 1)

\* C30 as stated: for every number of traits n the loop bound `1 << n` is
\* computed without panic and is 2^n, and the loop runs 2^n times.
C30_LoopBoundIsTwoToTheN ==
    pc = "shift_done" =>
        /\ shift.status = "ok"
        /\ IsTwoToThe(shift.bound, shift.n)
        /\ shift.iterations = shift.bound

\* The k-th smallest element of a set of positions.
KthOf(S, k) == CHOOSE x \in S : Cardinality({y \in S : y < x}) = k - 1

\* The positions of the variants that hold the path `p`.
Holding(p) == {q \in DOMAIN model.enum_variants : p \in MemberPaths(model.enum_variants[q])}

\* C25: lower returns one Function per trait, in the order of the traits,
\* and the matching variants of each are the variants holding its trait,
\* each once, in their order in the list of variants.
C25_OneAccessorPerTraitInOrder ==
    (Lowered \/ LoweredModel) =>
        /\ Len(ir.enum_impl.functions) = Len(model.traits)
        /\ \A t \in DOMAIN model.traits :
               LET f == ir.enum_impl.functions[t]
                   at == Holding(model.traits[t].path)
               IN  /\ f.result_path = model.traits[t].path
                   /\ Len(f.matching_variants) = Cardinality(at)
                   /\ \A k \in DOMAIN f.matching_variants :
                          f.matching_variants[k] = model.enum_variants[KthOf(at, k)].ident

\* C25 witness: T{B, A} lowered: the Function of A (the path at address 2)
\* comes first and matches TAB, then TA.
C25_Witness ==
    /\ pc = "lowered"
    /\ ast = [name |-> <<84>>, paths |-> <<PathB, PathA>>]
    /\ ir.enum_impl.functions[1].result_path = 2
    /\ ir.enum_impl.functions[1].matching_variants = << <<84, 65, 66>>, <<84, 65>> >>
    /\ ir.enum_impl.functions[2].matching_variants = << <<84, 65, 66>>, <<84, 66>> >>

\* The positions of the variants with more than one member.
MultiTrait == {q \in DOMAIN model.enum_variants : Len(model.enum_variants[q].implemented_traits) > 1}

\* C26: the aggregates are, in the order of the variants, one per variant
\* with more than one member, with the name of the variant and its members
\* in the variant's order.
C26_AggregateNamedAfterVariant ==
    (Lowered \/ LoweredModel) =>
        /\ Len(ir.trait_aggregates) = Cardinality(MultiTrait)
        /\ \A g \in DOMAIN ir.trait_aggregates :
               LET v == model.enum_variants[KthOf(MultiTrait, g)]
               IN  /\ ir.trait_aggregates[g].name = v.ident
                   /\ ir.trait_aggregates[g].traits = v.implemented_traits

\* C26 witness: T{B, A} lowered: the one aggregate is TAB, of A then B.
C26_Witness ==
    /\ pc = "lowered"
    /\ ast = [name |-> <<84>>, paths |-> <<PathB, PathA>>]
    /\ Len(ir.trait_aggregates) = 1
    /\ ir.trait_aggregates[1].name = <<84, 65, 66>>
    /\ ir.trait_aggregates[1].traits[1].ident = <<65>>
    /\ ir.trait_aggregates[1].traits[2].ident = <<66>>

\* C27 as stated: the unwrap() of segments.last() in extract_traits never
\* fails.
C27_UnwrapNeverFails ==
    pc # "panicked"

\* The specializers whose bound a type implementing `impl` meets.
SatisfiedBy(impl) ==
    {q \in DOMAIN tokens.specializers : Satisfies(tokens, tokens.specializers[q].bound, impl)}

\* The highest #refs among a set of specializers.
TopLevel(S) ==
    CHOOSE level \in {tokens.specializers[q].refs : q \in S} :
        \A q \in S : tokens.specializers[q].refs <= level

\* C28: in an expansion that rustc accepts, for every set of implemented
\* traits exactly one specializer is satisfied at the highest level at which
\* any is, and the macro's method lookup is never ambiguous.
C28_OneSpecializerAtTopLevel ==
    /\ (Emitted /\ Compiles(tokens)) =>
           \A impl \in SUBSET ListedTraits :
               LET sat == SatisfiedBy(impl)
               IN  /\ sat # {}
                   /\ Cardinality({q \in sat : tokens.specializers[q].refs = TopLevel(sat)}) = 1
                   /\ into_macro(tokens, impl).status = "ok"
    /\ Converted => selected.status = "ok"

\* C28 witness: of three traits the type implements two; two specializers
\* of level 1 are satisfied and the one of level 2 is selected.
C28_Witness ==
    /\ pc = "converted"
    /\ Len(model.traits) = 3
    /\ Cardinality(implemented) = 2
    /\ Cardinality({q \in SatisfiedBy(implemented) : tokens.specializers[q].refs = 1}) = 2
    /\ selected.status = "ok"
    /\ tokens.specializers[selected.specializer].refs = 2

\* The aggregates with the name `name`.
AggregatesNamed(name) == {g \in DOMAIN ir.trait_aggregates : ir.trait_aggregates[g].name = name}

\* C29: each constraint of kind Ident, of an enum variant or of a
\* specializer, names one aggregate, whose traits are the members of the
\* variant; and each aggregate is named by the constraint of one enum variant
\* and of one specializer.
C29_IdentConstraintNamesOneAggregate ==
    (Lowered \/ LoweredModel) =>
        /\ \A q \in DOMAIN ir.enum.variants :
               ir.enum.variants[q].constraint.kind = "Ident" =>
                   /\ Cardinality(AggregatesNamed(ir.enum.variants[q].constraint.ident)) = 1
                   /\ \A g \in AggregatesNamed(ir.enum.variants[q].constraint.ident) :
                          ir.trait_aggregates[g].traits = model.enum_variants[q].implemented_traits
        /\ \A q \in DOMAIN ir.autoref_specializers :
               ir.autoref_specializers[q].constraint.kind = "Ident" =>
                   /\ Cardinality(AggregatesNamed(ir.autoref_specializers[q].constraint.ident)) = 1
                   /\ \A g \in AggregatesNamed(ir.autoref_specializers[q].constraint.ident) :
                          ir.trait_aggregates[g].traits = model.enum_variants[q].implemented_traits
        /\ \A g \in DOMAIN ir.trait_aggregates :
               /\ Cardinality({q \in DOMAIN ir.enum.variants :
                      ir.enum.variants[q].constraint
                          = Constraint_Ident(ir.trait_aggregates[g].name)}) = 1
               /\ Cardinality({q \in DOMAIN ir.autoref_specializers :
                      ir.autoref_specializers[q].constraint
                          = Constraint_Ident(ir.trait_aggregates[g].name)}) = 1

====
